---------------------------- MODULE Spec2Model ----------------------------
(***************************************************************************)
(* Model of orchestrator.py: the spreadsheet validation engine             *)
(* (validate_dataframe over VALIDATION_SCHEMA) and the interactive menu    *)
(* layer that loads config.xlsx, validates it and drives terraform.        *)
(*                                                                         *)
(* Cells of the sheet are strings.  The non-string cell values pandas      *)
(* hands to the code are written as the tokens NaN (empty cell), None      *)
(* (row.get of a column the sheet does not have), True / False (Excel      *)
(* booleans) and One (the number 1).  Every other cell is text, and text   *)
(* is handled character by character (split, strip, regular expressions).  *)
(***************************************************************************)
EXTENDS Integers, Sequences, FiniteSets, TLC

(***************************************************************************)
(* Bounds of the exploration.                                              *)
(***************************************************************************)
MaxEdits == 2

MaxApplies == 2

(***************************************************************************)
(* Cell values and the Python predicates the code applies to them.         *)
(***************************************************************************)
NaN == "NaN"
None == "None"
True == "True"
False == "False"
One == "1"

\* pd.isna(v): NaN and None are both "missing".
isna(v) == v \in {NaN, None}

notna(v) == ~isna(v)

\* Python's `a == b` between a cell and a schema literal: NaN equals
\* nothing, the number 1 equals True.
PyEq(a, b) ==
    IF a = NaN \/ b = NaN THEN FALSE
    ELSE IF a = One /\ b = True THEN TRUE
    ELSE a = b

\* Python's `v is True`: only the boolean object itself.
IsTrue(v) == v = True

\* Python's truth value of a cell: None and False are falsy; NaN (a
\* non-zero float), True, 1 and non-empty text are truthy.
Truthy(v) == v \notin {None, False, ""}

\* Python's `v in [literals]`.
PyIn(v, lits) == \E l \in lits : PyEq(v, l)

(***************************************************************************)
(* Text: str.split(','), str.strip(), ', '.join and re.match.              *)
(***************************************************************************)
Char(s, i) == SubSeq(s, i, i)

Whitespace == {" ", "\t", "\n", "\r", "\f"}

Lower == {"a","b","c","d","e","f","g","h","i","j","k","l","m",
          "n","o","p","q","r","s","t","u","v","w","x","y","z"}

Upper == {"A","B","C","D","E","F","G","H","I","J","K","L","M",
          "N","O","P","Q","R","S","T","U","V","W","X","Y","Z"}

Digits == {"0","1","2","3","4","5","6","7","8","9"}

Alnum == Lower \cup Upper \cup Digits

\* d.strip(): drop leading and trailing whitespace.
Strip(s) ==
    LET keep == {i \in 1..Len(s) : Char(s, i) \notin Whitespace}
    IN  IF keep = {} THEN ""
        ELSE LET lo == CHOOSE i \in keep : \A j \in keep : i <= j
                 hi == CHOOSE i \in keep : \A j \in keep : j <= i
             IN  SubSeq(s, lo, hi)

\* s.split(sep) for a one-character separator: always at least one piece.
RECURSIVE Split(_, _)
Split(s, sep) ==
    LET hits == {i \in 1..Len(s) : Char(s, i) = sep}
    IN  IF hits = {} THEN <<s>>
        ELSE LET k == CHOOSE i \in hits : \A j \in hits : i <= j
             IN  <<SubSeq(s, 1, k - 1)>> \o Split(SubSeq(s, k + 1, Len(s)), sep)

\* One label of the hostname pattern:
\*   [a-zA-Z0-9] | [a-zA-Z0-9][a-zA-Z0-9\-]*[a-zA-Z0-9]
HostLabel(l) ==
    /\ Len(l) >= 1
    /\ Char(l, 1) \in Alnum
    /\ Char(l, Len(l)) \in Alnum
    /\ \A i \in 1..Len(l) : Char(l, i) \in Alnum \cup {"-"}

\* ^((label)\.)*(label) matched against the whole of s.
HostFull(s) ==
    LET labels == Split(s, ".")
    IN  \A i \in 1..Len(labels) : HostLabel(labels[i])

\* [0-9]{1,3}
Octet(p) == Len(p) \in 1..3 /\ \A i \in 1..Len(p) : Char(p, i) \in Digits

\* ([0-9]{1,3}\.){3}[0-9]{1,3}
IpBody(s) ==
    LET parts == Split(s, ".")
    IN  Len(parts) = 4 /\ \A i \in 1..4 : Octet(parts[i])

\* ([0-9]|[1-2][0-9]|3[0-2])
PrefixLen(p) ==
    \/ Len(p) = 1 /\ Char(p, 1) \in Digits
    \/ Len(p) = 2 /\ Char(p, 1) \in {"1", "2"} /\ Char(p, 2) \in Digits
    \/ Len(p) = 2 /\ Char(p, 1) = "3" /\ Char(p, 2) \in {"0", "1", "2"}

\* ^body(\/prefix)? matched against the whole of s.
IpFull(s) ==
    LET parts == Split(s, "/")
    IN  \/ Len(parts) = 1 /\ IpBody(s)
        \/ Len(parts) = 2 /\ IpBody(parts[1]) /\ PrefixLen(parts[2])

HOSTNAME_REGEX == "hostname"
IP_REGEX == "ip"

\* The pattern anchored with ^ and $ against the whole text.
ReFull(regex, s) ==
    IF regex = IP_REGEX THEN IpFull(s) ELSE HostFull(s)

\* re.match(regex, s) for the two patterns of the file.  Both end in `$',
\* which in Python also matches just before one trailing newline.
re_match(regex, s) ==
    \/ ReFull(regex, s)
    \/ /\ Len(s) >= 1
       /\ Char(s, Len(s)) = "\n"
       /\ ReFull(regex, SubSeq(s, 1, Len(s) - 1))

(***************************************************************************)
(* VALIDATION_SCHEMA, in the iteration order of the dict.                  *)
(***************************************************************************)
SchemaOrder ==
    << "lb_name", "namespace", "domains", "lb_type", "create_origin_pool",
       "enable_tls", "existing_origin_pool_name", "origin_pool_name",
       "origin_server_type", "custom_cert_names", "csrf_policy_mode",
       "healthcheck_type", "app_firewall_name", "waf_namespace",
       "ip_address_private", "ip_address_public",
       "dns_name_private", "dns_name_public" >>

SchemaColumns == {SchemaOrder[i] : i \in 1..Len(SchemaOrder)}

DependsOn(col, val) == [column |-> col, value |-> val, required |-> TRUE]

DependsOnOptional(col, val) == [column |-> col, value |-> val]

VALIDATION_SCHEMA ==
    [c \in SchemaColumns |->
       CASE c = "lb_name" -> [required |-> TRUE]
         [] c = "namespace" -> [required |-> TRUE]
         [] c = "domains" -> [required |-> TRUE]
         [] c = "lb_type" ->
              [required |-> TRUE, allowed_values |-> <<"https", "https_auto_cert">>]
         [] c = "create_origin_pool" -> [required |-> TRUE]
         [] c = "enable_tls" ->
              [depends_on |-> DependsOn("create_origin_pool", True)]
         [] c = "existing_origin_pool_name" ->
              [depends_on |-> DependsOn("create_origin_pool", False)]
         [] c = "origin_pool_name" ->
              [depends_on |-> DependsOn("create_origin_pool", True)]
         [] c = "origin_server_type" ->
              [depends_on |-> DependsOn("create_origin_pool", True)]
         [] c = "custom_cert_names" ->
              [depends_on |-> DependsOn("lb_type", "https")]
         [] c = "csrf_policy_mode" ->
              [allowed_values |-> <<"all_domains", "custom_domains", "disabled">>,
               depends_on |-> DependsOn("enable_csrf", True)]
         [] c = "healthcheck_type" ->
              [allowed_values |-> <<"tcp", "http">>,
               depends_on |-> DependsOn("enable_healthcheck", True)]
         [] c = "app_firewall_name" ->
              [depends_on |-> DependsOn("enable_app_firewall", True)]
         [] c = "waf_namespace" ->
              [depends_on |-> DependsOn("create_new_waf", True)]
         [] c = "ip_address_private" ->
              [regex |-> IP_REGEX,
               depends_on |-> DependsOnOptional("origin_server_type", "private_ip")]
         [] c = "ip_address_public" ->
              [regex |-> IP_REGEX,
               depends_on |-> DependsOnOptional("origin_server_type", "public_ip")]
         [] c = "dns_name_private" -> [regex |-> HOSTNAME_REGEX]
         [] c = "dns_name_public" -> [regex |-> HOSTNAME_REGEX]]

\* Columns the validator reads that the schema does not declare.
ExtraColumns ==
    { "enable_csrf", "enable_healthcheck", "enable_app_firewall",
      "create_new_waf", "csrf_custom_domains",
      "advertise_on_public_default_vip", "advertise_custom",
      "site_locator_type", "vsite_or_site_name",
      "advertise_where", "vsite_namespace" }

AllColumns == SchemaColumns \cup ExtraColumns

\* The schema's column names in the order sorted() gives them.
SortedSchemaColumns ==
    << "app_firewall_name", "create_origin_pool", "csrf_policy_mode",
       "custom_cert_names", "dns_name_private", "dns_name_public", "domains",
       "enable_tls", "existing_origin_pool_name", "healthcheck_type",
       "ip_address_private", "ip_address_public", "lb_name", "lb_type",
       "namespace", "origin_pool_name", "origin_server_type", "waf_namespace" >>

\* sorted(list(S)) for a set S of schema column names.
sorted(S) == SelectSeq(SortedSchemaColumns, LAMBDA c : c \in S)

\* The elements of a list, as a set.
Range(q) == {q[i] : i \in 1..Len(q)}

\* rules.get(key): a key the rule does not have reads as falsy.
RuleFlag(rules, key) == key \in DOMAIN rules /\ rules[key]

(***************************************************************************)
(* A data frame is [columns, rows]: the sheet's column names and its rows  *)
(* in order, each row a function on the frame's columns.                   *)
(***************************************************************************)

\* row.get(column): None for a column the frame does not have.
RowGet(row, column) == IF column \in DOMAIN row THEN row[column] ELSE None

(***************************************************************************)
(* Error messages.  A message is the f-string of these parts: the sheet    *)
(* row number (index + 2), the row's lb_name cell, the kind of sentence,   *)
(* the column it is about and the further values it embeds.                *)
(***************************************************************************)
Err(index, row, kind, column, items) ==
    [row_no |-> index + 2, lb_name |-> row["lb_name"], kind |-> kind,
     column |-> column, items |-> items]

MissingColumnsErr(missing_columns) ==
    [row_no |-> 0, lb_name |-> "", kind |-> "columns_missing",
     column |-> "", items |-> sorted(missing_columns)]

\* Lines 159-162 and 165-168: the allowed_values check, then the regex check.
ValueErrors(index, row, column, rules, cell_value) ==
    (IF "allowed_values" \in DOMAIN rules
        /\ ~PyIn(cell_value, Range(rules.allowed_values))
     THEN <<Err(index, row, "invalid_value_allowed", column, rules.allowed_values)>>
     ELSE <<>>)
    \o
    (IF "regex" \in DOMAIN rules /\ ~re_match(rules.regex, cell_value)
     THEN <<Err(index, row, "invalid_format", column, <<>>)>>
     ELSE <<>>)

\* Seeded fault: the depends_on branch without the test of the trigger.
DependsOnErrors_untriggered(index, row, column, rules, cell_value) ==
    LET dependency == rules.depends_on
    IN  IF RuleFlag(dependency, "required") /\ isna(cell_value)
        THEN <<Err(index, row, "required_because", column,
                   <<dependency.column, dependency.value>>)>>
        ELSE IF notna(cell_value)
             THEN ValueErrors(index, row, column, rules, cell_value)
             ELSE <<>>

\* Lines 149-162: the branch of a rule that has depends_on.
DependsOnErrors(index, row, column, rules, cell_value) ==
    LET dependency == rules.depends_on
        trigger_column == dependency.column
        trigger_value == dependency.value
    IN  IF PyEq(RowGet(row, trigger_column), trigger_value)
        THEN IF RuleFlag(dependency, "required") /\ isna(cell_value)
             THEN <<Err(index, row, "required_because", column,
                        <<trigger_column, trigger_value>>)>>
             ELSE IF notna(cell_value)
                  THEN ValueErrors(index, row, column, rules, cell_value)
                  ELSE <<>>
        ELSE <<>>

\* Seeded fault: the `required' key is never found, so line 145 never fires.
ColumnErrors_norequired(index, row, column) ==
    LET rules == VALIDATION_SCHEMA[column]
        cell_value == RowGet(row, column)
    IN  IF "depends_on" \in DOMAIN rules
        THEN DependsOnErrors(index, row, column, rules, cell_value)
        ELSE IF notna(cell_value)
             THEN ValueErrors(index, row, column, rules, cell_value)
             ELSE <<>>

\* Seeded fault: line 164 as `if' instead of `elif': a present value is
\* checked against allowed_values and regex whatever depends_on says.
ColumnErrors_elif_as_if(index, row, column) ==
    LET rules == VALIDATION_SCHEMA[column]
        cell_value == RowGet(row, column)
    IN  IF RuleFlag(rules, "required") /\ isna(cell_value)
        THEN <<Err(index, row, "required_empty", column, <<>>)>>
        ELSE (IF "depends_on" \in DOMAIN rules
              THEN DependsOnErrors(index, row, column, rules, cell_value)
              ELSE <<>>)
             \o
             (IF notna(cell_value)
              THEN ValueErrors(index, row, column, rules, cell_value)
              ELSE <<>>)

\* Lines 143-168: the body of the loop over VALIDATION_SCHEMA for one column.
ColumnErrors(index, row, column) ==
    LET rules == VALIDATION_SCHEMA[column]
        cell_value == RowGet(row, column)
    IN  IF RuleFlag(rules, "required") /\ isna(cell_value)
        THEN <<Err(index, row, "required_empty", column, <<>>)>>
        ELSE IF "depends_on" \in DOMAIN rules
             THEN DependsOnErrors(index, row, column, rules, cell_value)
             ELSE IF notna(cell_value)
                  THEN ValueErrors(index, row, column, rules, cell_value)
                  ELSE <<>>

\* Lines 142-168: the loop over the schema, in its iteration order.
RECURSIVE SchemaErrors(_, _, _)
SchemaErrors(index, row, k) ==
    IF k > Len(SchemaOrder) THEN <<>>
    ELSE ColumnErrors(index, row, SchemaOrder[k]) \o SchemaErrors(index, row, k + 1)

\* Seeded fault: the entries are matched and listed as split, untrimmed.
InvalidHostnames_untrimmed(value) ==
    SelectSeq(Split(value, ","), LAMBDA d : ~re_match(HOSTNAME_REGEX, d))

\* [d.strip() for d in str(value).split(',')
\*            if not re.match(hostname_regex, d.strip())]
InvalidHostnames(value) ==
    LET parts == Split(value, ",")
        stripped == [i \in 1..Len(parts) |-> Strip(parts[i])]
    IN  SelectSeq(stripped, LAMBDA d : ~re_match(HOSTNAME_REGEX, d))

\* Lines 170-173.
DomainsErrors(index, row) ==
    IF notna(RowGet(row, "domains"))
    THEN LET invalid_domains == InvalidHostnames(row["domains"])
         IN  IF invalid_domains # <<>>
             THEN <<Err(index, row, "invalid_hostnames", "domains", invalid_domains)>>
             ELSE <<>>
    ELSE <<>>

\* Lines 175-178.
CsrfDomainsErrors(index, row) ==
    IF Truthy(RowGet(row, "enable_csrf")) /\ notna(RowGet(row, "csrf_custom_domains"))
    THEN LET invalid_csrf_domains == InvalidHostnames(row["csrf_custom_domains"])
         IN  IF invalid_csrf_domains # <<>>
             THEN <<Err(index, row, "invalid_hostnames", "csrf_custom_domains",
                        invalid_csrf_domains)>>
             ELSE <<>>
    ELSE <<>>

\* Lines 180-181.
AdvertiseConflictErrors(index, row) ==
    IF IsTrue(RowGet(row, "advertise_on_public_default_vip"))
       /\ IsTrue(RowGet(row, "advertise_custom"))
    THEN <<Err(index, row, "both_true", "advertise_on_public_default_vip",
               <<"advertise_custom">>)>>
    ELSE <<>>

PrivateOriginTypes == <<"private_ip", "private_name", "k8s_service">>

SiteLiterals == <<"site", "virtual_site">>

\* Seeded fault: line 188 as `elif': the name is only asked for when the
\* locator type passed.
SiteLocatorErrors_elif(index, row) ==
    IF IsTrue(RowGet(row, "create_origin_pool"))
       /\ PyIn(RowGet(row, "origin_server_type"),
               {"private_ip", "private_name", "k8s_service"})
    THEN IF isna(RowGet(row, "site_locator_type"))
         THEN <<Err(index, row, "required_for_origin", "site_locator_type", <<>>)>>
         ELSE IF ~PyIn(RowGet(row, "site_locator_type"), {"site", "virtual_site"})
              THEN <<Err(index, row, "invalid_value_must_be", "site_locator_type",
                         <<"site", "virtual_site">>)>>
              ELSE IF isna(RowGet(row, "vsite_or_site_name"))
                   THEN <<Err(index, row, "required_for_origin",
                              "vsite_or_site_name", <<>>)>>
                   ELSE <<>>
    ELSE <<>>

\* Lines 183-189.
SiteLocatorErrors(index, row) ==
    IF IsTrue(RowGet(row, "create_origin_pool"))
       /\ PyIn(RowGet(row, "origin_server_type"), Range(PrivateOriginTypes))
    THEN (IF isna(RowGet(row, "site_locator_type"))
          THEN <<Err(index, row, "required_for_origin", "site_locator_type", <<>>)>>
          ELSE IF ~PyIn(RowGet(row, "site_locator_type"), Range(SiteLiterals))
               THEN <<Err(index, row, "invalid_value_must_be", "site_locator_type",
                          SiteLiterals)>>
               ELSE <<>>)
         \o
         (IF isna(RowGet(row, "vsite_or_site_name"))
          THEN <<Err(index, row, "required_for_origin", "vsite_or_site_name", <<>>)>>
          ELSE <<>>)
    ELSE <<>>

\* Seeded fault: line 192 tests the truth value of the cell instead of
\* `is True', so an empty or numeric advertise_custom triggers the rule.
AdvertiseCustomErrors_truthy(index, row) ==
    IF Truthy(RowGet(row, "advertise_custom"))
    THEN (IF isna(RowGet(row, "advertise_where"))
          THEN <<Err(index, row, "required_because", "advertise_where",
                     <<"advertise_custom", "TRUE">>)>>
          ELSE IF ~PyIn(RowGet(row, "advertise_where"), {"site", "virtual_site"})
               THEN <<Err(index, row, "invalid_value_must_be", "advertise_where",
                          <<"site", "virtual_site">>)>>
               ELSE <<>>)
         \o
         (IF PyEq(RowGet(row, "advertise_where"), "virtual_site")
             /\ isna(RowGet(row, "vsite_namespace"))
          THEN <<Err(index, row, "required_because", "vsite_namespace",
                     <<"advertise_where", "virtual_site">>)>>
          ELSE <<>>)
    ELSE <<>>

\* Lines 192-199.
AdvertiseCustomErrors(index, row) ==
    IF IsTrue(RowGet(row, "advertise_custom"))
    THEN (IF isna(RowGet(row, "advertise_where"))
          THEN <<Err(index, row, "required_because", "advertise_where",
                     <<"advertise_custom", "TRUE">>)>>
          ELSE IF ~PyIn(RowGet(row, "advertise_where"), Range(SiteLiterals))
               THEN <<Err(index, row, "invalid_value_must_be", "advertise_where",
                          SiteLiterals)>>
               ELSE <<>>)
         \o
         (IF PyEq(RowGet(row, "advertise_where"), "virtual_site")
             /\ isna(RowGet(row, "vsite_namespace"))
          THEN <<Err(index, row, "required_because", "vsite_namespace",
                     <<"advertise_where", "virtual_site">>)>>
          ELSE <<>>)
    ELSE <<>>

\* Seeded fault: the three rules chained with `elif', so the first rule
\* that reports hides the later ones.
CrossFieldErrors_shortcircuit(index, row) ==
    IF AdvertiseConflictErrors(index, row) # <<>>
    THEN AdvertiseConflictErrors(index, row)
    ELSE IF SiteLocatorErrors(index, row) # <<>>
         THEN SiteLocatorErrors(index, row)
         ELSE AdvertiseCustomErrors(index, row)

\* Lines 180-199: the three hand-coded rules, in the order of the code.
CrossFieldErrors(index, row) ==
    AdvertiseConflictErrors(index, row)
    \o SiteLocatorErrors(index, row)
    \o AdvertiseCustomErrors(index, row)

\* Seeded fault: the hand-coded rules run only for a row that passed the
\* schema and the hostname checks.
RowErrors_crossfield_if_clean(index, row) ==
    LET earlier == SchemaErrors(index, row, 1)
                   \o DomainsErrors(index, row)
                   \o CsrfDomainsErrors(index, row)
    IN  IF earlier # <<>> THEN earlier ELSE CrossFieldErrors(index, row)

\* Seeded fault: the hand-coded rules moved in front of the hostname checks.
RowErrors_crossfield_first(index, row) ==
    SchemaErrors(index, row, 1)
    \o CrossFieldErrors(index, row)
    \o DomainsErrors(index, row)
    \o CsrfDomainsErrors(index, row)

\* Lines 141-199: everything one iteration of `for index, row` appends.
RowErrors(index, row) ==
    SchemaErrors(index, row, 1)
    \o DomainsErrors(index, row)
    \o CsrfDomainsErrors(index, row)
    \o CrossFieldErrors(index, row)

\* Seeded fault: the loop stops after the first row that has errors.
AllRowErrors_first_failing(df, i) ==
    LET failing == {k \in i..Len(df.rows) : RowErrors(k - 1, df.rows[k]) # <<>>}
    IN  IF failing = {} THEN <<>>
        ELSE LET k == CHOOSE k \in failing : \A j \in failing : k <= j
             IN  RowErrors(k - 1, df.rows[k])

\* Lines 141-201: the loop over df.iterrows(); index counts from 0.
RECURSIVE AllRowErrors(_, _)
AllRowErrors(df, i) ==
    IF i > Len(df.rows) THEN <<>>
    ELSE RowErrors(i - 1, df.rows[i]) \o AllRowErrors(df, i + 1)

\* Seeded fault: the set difference of line 133 with its operands swapped.
MissingColumns_swapped(df) == df.columns \ SchemaColumns

\* Lines 131-137: the columns the schema declares and the sheet lacks.
MissingColumns(df) == SchemaColumns \ df.columns

validate_dataframe(df) ==
    LET missing_columns == MissingColumns(df)
    IN  IF missing_columns # {}
        THEN <<MissingColumnsErr(missing_columns)>>
        ELSE AllRowErrors(df, 1)

(***************************************************************************)
(* The sheet the operator maintains.  CellValues are the contents a cell   *)
(* of each column is given in this exploration.                            *)
(***************************************************************************)
Flag == {NaN, True, False}

CellValues ==
    [c \in AllColumns |->
       CASE c = "lb_name" -> {NaN, "lb-a", "lb-b"}
         [] c = "namespace" -> {NaN, "ns1"}
         [] c = "domains" ->
              {NaN, "a.io", "a.io, b-c.io", "a.io, bad_host!, b.io", "-x.io,a.io,"}
         [] c = "lb_type" -> {NaN, "https", "https_auto_cert", "http"}
         [] c = "create_origin_pool" -> Flag \cup {One}
         [] c = "enable_tls" -> Flag
         [] c = "existing_origin_pool_name" -> {NaN, "pool-x"}
         [] c = "origin_pool_name" -> {NaN, "pool-a"}
         [] c = "origin_server_type" ->
              {NaN, "private_ip", "public_ip", "private_name", "k8s_service",
               "public_name"}
         [] c = "custom_cert_names" -> {NaN, "cert1"}
         [] c = "csrf_policy_mode" -> {NaN, "custom_domains", "disabled", "enforce"}
         [] c = "healthcheck_type" -> {NaN, "http", "https"}
         [] c = "app_firewall_name" -> {NaN, "waf1"}
         [] c = "waf_namespace" -> {NaN, "shared"}
         [] c = "ip_address_private" -> {NaN, "10.0.0.1", "10.0.0.1/24", "10.0.0.1/33"}
         [] c = "ip_address_public" -> {NaN, "8.8.8.8", "8.8.8"}
         [] c = "dns_name_private" -> {NaN, "app.local", "app_1.local"}
         [] c = "dns_name_public" -> {NaN, "app.io", "app.io\n", "-app.io"}
         [] c = "enable_csrf" -> Flag
         [] c = "enable_healthcheck" -> Flag
         [] c = "enable_app_firewall" -> Flag
         [] c = "create_new_waf" -> Flag
         [] c = "csrf_custom_domains" -> {NaN, "a.io", "a.io, bad host"}
         [] c = "advertise_on_public_default_vip" -> Flag
         [] c = "advertise_custom" -> Flag \cup {One}
         [] c = "site_locator_type" -> {NaN, "site", "virtual_site", "Site"}
         [] c = "vsite_or_site_name" -> {NaN, "site1"}
         [] c = "advertise_where" -> {NaN, "site", "virtual_site", "public"}
         [] c = "vsite_namespace" -> {NaN, "shared"}]

EmptyRow == [c \in AllColumns |-> NaN]

\* f with the entries of the record g written over it.
Over(f, g) == [c \in DOMAIN f |-> IF c \in DOMAIN g THEN g[c] ELSE f[c]]

\* An HTTPS load balancer with its own origin pool on a private address,
\* CSRF protection, a health check and a custom advertisement.
RowPrivatePool ==
    Over(EmptyRow,
         [lb_name |-> "lb-a", namespace |-> "ns1", domains |-> "a.io, b-c.io",
          lb_type |-> "https", create_origin_pool |-> True, enable_tls |-> True,
          origin_pool_name |-> "pool-a", origin_server_type |-> "private_ip",
          custom_cert_names |-> "cert1", csrf_policy_mode |-> "custom_domains",
          healthcheck_type |-> "http", app_firewall_name |-> "waf1",
          ip_address_private |-> "10.0.0.1", enable_csrf |-> True,
          enable_healthcheck |-> True, enable_app_firewall |-> True,
          create_new_waf |-> False, csrf_custom_domains |-> "a.io",
          advertise_on_public_default_vip |-> False, advertise_custom |-> True,
          site_locator_type |-> "site", vsite_or_site_name |-> "site1",
          advertise_where |-> "virtual_site", vsite_namespace |-> "shared"])

\* An auto-certificate load balancer in front of an existing pool, on the
\* public default VIP.
RowExistingPool ==
    Over(EmptyRow,
         [lb_name |-> "lb-b", namespace |-> "ns1", domains |-> "a.io",
          lb_type |-> "https_auto_cert", create_origin_pool |-> False,
          existing_origin_pool_name |-> "pool-x", enable_csrf |-> False,
          enable_healthcheck |-> False, enable_app_firewall |-> False,
          create_new_waf |-> False, advertise_on_public_default_vip |-> True,
          advertise_custom |-> False])

\* A row that is wrong in every group of checks.
RowBroken ==
    Over(EmptyRow,
         [lb_name |-> "lb-a", domains |-> "a.io, bad_host!, b.io", lb_type |-> "http",
          create_origin_pool |-> True, origin_pool_name |-> "pool-a",
          origin_server_type |-> "k8s_service", csrf_policy_mode |-> "enforce",
          ip_address_public |-> "8.8.8", dns_name_private |-> "app_1.local",
          enable_csrf |-> True, csrf_custom_domains |-> "a.io, bad host",
          enable_healthcheck |-> True, advertise_on_public_default_vip |-> True,
          advertise_custom |-> True, site_locator_type |-> "Site",
          advertise_where |-> "public"])

\* A row that has hardly been filled in.
RowSparse == Over(EmptyRow, [lb_name |-> "lb-b", create_origin_pool |-> False])

Frame(rows) == [columns |-> AllColumns, rows |-> rows]

\* `None' where the code expects a frame.
NoFrame == [columns |-> {}, rows |-> <<>>]

Sheets ==
    { Frame(<<RowPrivatePool, RowExistingPool>>),
      Frame(<<RowBroken, RowSparse>>) }

VARIABLES
    excel,     \* config.xlsx, sheet LoadBalancers, as it is on disk
    edits,     \* how many changes the operator has saved
    pc,        \* where the program is
    handler,   \* the apply handler that is running: "single", "all" or ""
    applies,   \* how many apply handlers have been started
    df_lb,     \* main's df_lb: the frame of the latest load_data() of main
    df,        \* the argument of the latest validate_dataframe call
    errors,    \* the list that call returned, as printed
    validated, \* df_lb_validated: what run_validation_loop returned
    lb_name,   \* the load balancer being applied
    existing_workspaces, \* the handler's snapshot of the workspace list
    pending_lbs,         \* handle_apply_all: the names still to deploy
    proceed,   \* the operator's latest answer at a (y/n) prompt, lowered
    workspace_to_destroy, \* handle_destroy: the deployment selected
    log,       \* what the running handler has written and run so far
    workspaces,  \* terraform: the workspaces that exist
    current_ws,  \* terraform: the selected workspace
    tfvars,      \* the names n with a file tfvars/<n>.tfvars
    deployed     \* the workspaces with a state file (is_deployed)

sheetVars == <<excel, edits>>
callVars == <<df, errors>>
applyVars == <<validated, lb_name, existing_workspaces, pending_lbs, proceed,
               workspace_to_destroy, log>>
worldVars == <<workspaces, current_ws, tfvars, deployed>>
vars == <<excel, edits, pc, handler, applies, df_lb, df, errors, validated,
          lb_name, existing_workspaces, pending_lbs, proceed,
          workspace_to_destroy, log, workspaces, current_ws, tfvars, deployed>>

(***************************************************************************)
(* The operator, who edits and saves the workbook.                         *)
(***************************************************************************)
\* Types a value into one cell.
EditCell(i, c, v) ==
    /\ edits < MaxEdits
    /\ i \in 1..Len(excel.rows)
    /\ c \in excel.columns
    /\ v \in CellValues[c]
    /\ v # excel.rows[i][c]
    /\ excel' = [excel EXCEPT !.rows[i][c] = v]
    /\ edits' = edits + 1
    /\ UNCHANGED <<pc, handler, applies, df_lb, callVars, applyVars, worldVars>>

\* Deletes or misspells a column header.
DropColumn(c) ==
    /\ edits < MaxEdits
    /\ c \in excel.columns
    /\ excel' = [columns |-> excel.columns \ {c},
                 rows |-> [i \in 1..Len(excel.rows) |->
                             [k \in excel.columns \ {c} |-> excel.rows[i][k]]]]
    /\ edits' = edits + 1
    /\ UNCHANGED <<pc, handler, applies, df_lb, callVars, applyVars, worldVars>>

(***************************************************************************)
(* main(): load, menu, handler, "Press Enter".                             *)
(***************************************************************************)
\* Lines 108-113: pd.read_excel of the sheet as it is now.
load_data == excel

\* Lines 583-590: the top of the loop, up to the menu prompt.
MainLoad ==
    /\ pc = "load"
    /\ df_lb' = load_data
    /\ pc' = "menu"
    /\ UNCHANGED <<sheetVars, handler, applies, callVars, applyVars, worldVars>>

\* Lines 114-116 and 584-585: the workbook could not be read.
MainLoadFails ==
    /\ pc = "load"
    /\ pc' = "load_failed"
    /\ UNCHANGED <<sheetVars, handler, applies, df_lb, callVars, applyVars, worldVars>>

\* Lines 585-586: Enter at "Please fix the Excel file", then `continue'.
MainRetry ==
    /\ pc = "load_failed"
    /\ pc' = "load"
    /\ UNCHANGED <<sheetVars, handler, applies, df_lb, callVars, applyVars, worldVars>>

\* Lines 548-557, reached with choice '9': validate main's frame and print.
handle_validate ==
    /\ pc = "menu"
    /\ df' = df_lb
    /\ errors' = validate_dataframe(df_lb)
    /\ pc' = "pause"
    /\ UNCHANGED <<sheetVars, handler, applies, df_lb, applyVars, worldVars>>

\* Lines 598-599 and back to 582: Enter at "Press Enter to return to the
\* main menu".  The locals of the finished round are not read again.
PressEnter ==
    /\ pc = "pause"
    /\ pc' = "load"
    /\ handler' = ""
    /\ df_lb' = NoFrame
    /\ df' = NoFrame
    /\ errors' = <<>>
    /\ validated' = NoFrame
    /\ lb_name' = ""
    /\ existing_workspaces' = {}
    /\ pending_lbs' = <<>>
    /\ proceed' = None
    /\ workspace_to_destroy' = None
    /\ log' = <<>>
    /\ UNCHANGED <<sheetVars, applies, worldVars>>

(***************************************************************************)
(* run_validation_loop, entered from the two apply handlers.               *)
(***************************************************************************)
\* Lines 385-389 (choice '1') and 421-425 (choice '2'): the handler starts
\* with run_validation_loop.
StartApply(h) ==
    /\ pc = "menu"
    /\ applies < MaxApplies
    /\ applies' = applies + 1
    /\ handler' = h
    /\ pc' = "loop_load"
    /\ UNCHANGED <<sheetVars, df_lb, callVars, applyVars, worldVars>>

\* Seeded fault: the test of line 374 always succeeds.
Passes_always(errs) == TRUE

\* Line 374, `if not errors'.
Passes(errs) == errs = <<>>

\* Where the handler goes on after run_validation_loop returned a frame.
AfterValidation(h) == IF h = "single" THEN "select" ELSE "prepare_all"

\* Lines 369-379: load, validate, return the frame or print the errors.
LoopValidate ==
    /\ pc = "loop_load"
    /\ df' = load_data
    /\ errors' = validate_dataframe(load_data)
    /\ IF Passes(validate_dataframe(load_data))
       THEN /\ validated' = load_data
            /\ pc' = AfterValidation(handler)
       ELSE /\ validated' = validated
            /\ pc' = "loop_errors"
    /\ UNCHANGED <<sheetVars, handler, applies, df_lb, lb_name,
                   existing_workspaces, pending_lbs, proceed,
                   workspace_to_destroy, log, worldVars>>

\* Lines 370-372: the load failed; Enter retries.
LoopLoadFails ==
    /\ pc = "loop_load"
    /\ pc' = "loop_load_failed"
    /\ UNCHANGED <<sheetVars, handler, applies, df_lb, callVars, applyVars, worldVars>>

LoopRetry ==
    /\ pc = "loop_load_failed"
    /\ pc' = "loop_load"
    /\ UNCHANGED <<sheetVars, handler, applies, df_lb, callVars, applyVars, worldVars>>

\* Lines 380-381 with an answer other than 'm': around the loop again.
LoopRevalidate ==
    /\ pc = "loop_errors"
    /\ pc' = "loop_load"
    /\ UNCHANGED <<sheetVars, handler, applies, df_lb, callVars, applyVars, worldVars>>

\* Lines 380-382 with 'm', then line 390 or 426: the handler returns.
LoopTypeM ==
    /\ pc = "loop_errors"
    /\ pc' = "pause"
    /\ UNCHANGED <<sheetVars, handler, applies, df_lb, callVars, applyVars, worldVars>>

(***************************************************************************)
(* handle_apply_single and handle_apply_all after the validation.          *)
(***************************************************************************)
Entry(cmd, name, rc) == [cmd |-> cmd, lb |-> name, ws |-> current_ws, rc |-> rc]

\* The lb_name cells of a frame's rows, in row order.
Names(frame) == [i \in 1..Len(frame.rows) |-> frame.rows[i]["lb_name"]]

\* Lines 393-411: the selection prompt, the workspace list and the test
\* for an existing workspace.  listed is whether `terraform workspace
\* list' worked.
SelectLb(choice, listed) ==
    /\ pc = "select"
    /\ choice \in 0..(Len(validated.rows) + 1)
    /\ IF choice \in 1..Len(validated.rows) /\ listed
       THEN /\ lb_name' = Names(validated)[choice]
            /\ existing_workspaces' = workspaces
            /\ pc' = IF Names(validated)[choice] \in workspaces
                     THEN "confirm_single" ELSE "write"
       ELSE /\ pc' = "pause"
            /\ UNCHANGED <<lb_name, existing_workspaces>>
    /\ UNCHANGED <<sheetVars, handler, applies, df_lb, callVars, validated,
                   pending_lbs, proceed, workspace_to_destroy, log, worldVars>>

\* str.lower() of what the operator types at a (y/n) prompt.
lower(answer) == IF answer = "Y" THEN "y" ELSE answer

\* Seeded fault: the answer is not looked at and the handler goes on.
Declines_never(answer) == FALSE

\* Lines 410 and 439, `if proceed != 'y''.
Declines(answer) == answer # "y"

\* What the operator types at a (y/n) prompt.
Answers == {"y", "Y", "n", ""}

\* Lines 409-411: "Do you want to proceed? (y/n)".
ConfirmSingle(answer) ==
    /\ pc = "confirm_single"
    /\ proceed' = lower(answer)
    /\ pc' = IF Declines(lower(answer)) THEN "pause" ELSE "write"
    /\ UNCHANGED <<sheetVars, handler, applies, df_lb, callVars, validated,
                   lb_name, existing_workspaces, pending_lbs,
                   workspace_to_destroy, log, worldVars>>

\* Line 431: the rows of the validated frame that are not deployed.
Pending(frame) == SelectSeq(Names(frame), LAMBDA n : n \notin deployed)

\* Lines 429-437: the workspace list and the pending load balancers.
PrepareAll(listed) ==
    /\ pc = "prepare_all"
    /\ IF listed /\ Pending(validated) # <<>>
       THEN /\ existing_workspaces' = workspaces
            /\ pending_lbs' = Pending(validated)
            /\ pc' = "confirm_all"
       ELSE /\ pc' = "pause"
            /\ UNCHANGED <<existing_workspaces, pending_lbs>>
    /\ UNCHANGED <<sheetVars, handler, applies, df_lb, callVars, validated,
                   lb_name, proceed, workspace_to_destroy, log, worldVars>>

\* Lines 438-442: the confirmation, then the first pending load balancer.
ConfirmAll(answer) ==
    /\ pc = "confirm_all"
    /\ proceed' = lower(answer)
    /\ IF Declines(lower(answer))
       THEN /\ pc' = "pause"
            /\ UNCHANGED <<lb_name, pending_lbs>>
       ELSE /\ lb_name' = Head(pending_lbs)
            /\ pending_lbs' = Tail(pending_lbs)
            /\ pc' = "write"
    /\ UNCHANGED <<sheetVars, handler, applies, df_lb, callVars, validated,
                   existing_workspaces, workspace_to_destroy, log, worldVars>>

\* Lines 412-414 and 444-447: generate and write tfvars/<lb_name>.tfvars.
WriteTfvars ==
    /\ pc = "write"
    /\ tfvars' = tfvars \cup {lb_name}
    /\ log' = Append(log, Entry("write", lb_name, 0))
    /\ pc' = "workspace"
    /\ UNCHANGED <<sheetVars, handler, applies, df_lb, callVars, validated,
                   lb_name, existing_workspaces, pending_lbs, proceed,
                   workspace_to_destroy, workspaces, current_ws, deployed>>

\* Lines 415-418 and 448-451: `terraform workspace new' for a name not in
\* the snapshot, `terraform workspace select' otherwise.  ok is whether
\* the command exits with 0; the return code is not looked at.
RunWorkspace(ok) ==
    /\ pc = "workspace"
    /\ LET cmd == IF lb_name \notin existing_workspaces THEN "new" ELSE "select"
           can == IF cmd = "new" THEN lb_name \notin workspaces
                                 ELSE lb_name \in workspaces
       IN  /\ ok => can
           /\ log' = Append(log, Entry(cmd, lb_name, IF ok THEN 0 ELSE 1))
           /\ workspaces' = IF ok THEN workspaces \cup {lb_name} ELSE workspaces
           /\ current_ws' = IF ok THEN lb_name ELSE current_ws
    /\ pc' = "apply"
    /\ UNCHANGED <<sheetVars, handler, applies, df_lb, callVars, validated,
                   lb_name, existing_workspaces, pending_lbs, proceed,
                   workspace_to_destroy, tfvars, deployed>>

\* Lines 419 and 452: `terraform apply' in the selected workspace, then
\* the next pending load balancer or the end of the handler.
RunApply(ok) ==
    /\ pc = "apply"
    /\ log' = Append(log, Entry("apply", lb_name, IF ok THEN 0 ELSE 1))
    /\ deployed' = IF ok THEN deployed \cup {current_ws} ELSE deployed
    /\ IF pending_lbs # <<>>
       THEN /\ lb_name' = Head(pending_lbs)
            /\ pending_lbs' = Tail(pending_lbs)
            /\ pc' = "write"
       ELSE /\ pc' = "pause"
            /\ UNCHANGED <<lb_name, pending_lbs>>
    /\ UNCHANGED <<sheetVars, handler, applies, df_lb, callVars, validated,
                   existing_workspaces, proceed, workspace_to_destroy,
                   workspaces, current_ws, tfvars>>

(***************************************************************************)
(* handle_destroy.                                                         *)
(***************************************************************************)
\* The load balancer names of the workbook in sorted() order.
NameOrder == <<"lb-a", "lb-b">>

\* Line 458: sorted(list(existing_workspaces - {'default'})).
ActiveWs(listing) == SelectSeq(NameOrder, LAMBDA n : n \in listing \ {"default"})

\* Lines 454-460, reached with choice '3': the workspace list, up to the
\* selection prompt.  listed is whether `terraform workspace list' worked.
StartDestroy(listed) ==
    /\ pc = "menu"
    /\ handler' = "destroy"
    /\ IF listed /\ ActiveWs(workspaces) # <<>>
       THEN /\ existing_workspaces' = workspaces
            /\ pc' = "destroy_select"
       ELSE /\ pc' = "pause"
            /\ UNCHANGED existing_workspaces
    /\ UNCHANGED <<sheetVars, applies, df_lb, callVars, validated, lb_name,
                   pending_lbs, proceed, workspace_to_destroy, log, worldVars>>

\* Lines 461-463: prompt_for_selection over the active workspaces.
SelectDestroy(choice) ==
    /\ pc = "destroy_select"
    /\ choice \in 0..(Len(ActiveWs(existing_workspaces)) + 1)
    /\ IF choice \in 1..Len(ActiveWs(existing_workspaces))
       THEN /\ workspace_to_destroy' = ActiveWs(existing_workspaces)[choice]
            /\ pc' = "destroy_ws"
       ELSE /\ pc' = "pause"
            /\ UNCHANGED workspace_to_destroy
    /\ UNCHANGED <<sheetVars, handler, applies, df_lb, callVars, validated,
                   lb_name, existing_workspaces, pending_lbs, proceed, log,
                   worldVars>>

\* Line 464: `terraform workspace select <workspace_to_destroy>'; the
\* return code is not looked at.
RunSelectToDestroy(ok) ==
    /\ pc = "destroy_ws"
    /\ ok => workspace_to_destroy \in workspaces
    /\ log' = Append(log, Entry("select", workspace_to_destroy, IF ok THEN 0 ELSE 1))
    /\ current_ws' = IF ok THEN workspace_to_destroy ELSE current_ws
    /\ pc' = "destroy"
    /\ UNCHANGED <<sheetVars, handler, applies, df_lb, callVars, validated,
                   lb_name, existing_workspaces, pending_lbs, proceed,
                   workspace_to_destroy, workspaces, tfvars, deployed>>

\* Seeded fault: the test of line 466 always succeeds.
DestroySucceeded_always(rc) == TRUE

\* Line 466, `if rc == 0'.
DestroySucceeded(rc) == rc = 0

\* Lines 465-466: `terraform destroy' in the selected workspace with the
\* variables of workspace_to_destroy.  emptied is whether the state file
\* it leaves behind is too small for is_deployed.
RunDestroy(ok, emptied) ==
    /\ pc = "destroy"
    /\ emptied => ok
    /\ log' = Append(log, Entry("destroy", workspace_to_destroy, IF ok THEN 0 ELSE 1))
    /\ deployed' = IF emptied THEN deployed \ {current_ws} ELSE deployed
    /\ pc' = IF DestroySucceeded(IF ok THEN 0 ELSE 1) THEN "confirm_delete" ELSE "pause"
    /\ UNCHANGED <<sheetVars, handler, applies, df_lb, callVars, validated,
                   lb_name, existing_workspaces, pending_lbs, proceed,
                   workspace_to_destroy, workspaces, current_ws, tfvars>>

\* Line 467: "Delete workspace and .tfvars file? (y/n)".
ConfirmDelete(answer) ==
    /\ pc = "confirm_delete"
    /\ proceed' = lower(answer)
    /\ pc' = IF lower(answer) = "y" THEN "select_default" ELSE "pause"
    /\ UNCHANGED <<sheetVars, handler, applies, df_lb, callVars, validated,
                   lb_name, existing_workspaces, pending_lbs,
                   workspace_to_destroy, log, worldVars>>

\* Line 468: `terraform workspace select default'.
RunSelectDefault(ok) ==
    /\ pc = "select_default"
    /\ log' = Append(log, Entry("select", "default", IF ok THEN 0 ELSE 1))
    /\ current_ws' = IF ok THEN "default" ELSE current_ws
    /\ pc' = "ws_delete"
    /\ UNCHANGED <<sheetVars, handler, applies, df_lb, callVars, validated,
                   lb_name, existing_workspaces, pending_lbs, proceed,
                   workspace_to_destroy, workspaces, tfvars, deployed>>

\* Lines 469-471: `terraform workspace delete', which terraform refuses
\* for the selected workspace, then os.remove of the .tfvars file if it
\* exists.
RunDelete(ok) ==
    /\ pc = "ws_delete"
    /\ ok => workspace_to_destroy \in workspaces /\ workspace_to_destroy # current_ws
    /\ log' = Append(log, Entry("delete", workspace_to_destroy, IF ok THEN 0 ELSE 1))
              \o (IF workspace_to_destroy \in tfvars
                  THEN <<Entry("remove", workspace_to_destroy, 0)>>
                  ELSE <<>>)
    /\ workspaces' = IF ok THEN workspaces \ {workspace_to_destroy} ELSE workspaces
    /\ deployed' = IF ok THEN deployed \ {workspace_to_destroy} ELSE deployed
    /\ tfvars' = tfvars \ {workspace_to_destroy}
    /\ pc' = "pause"
    /\ UNCHANGED <<sheetVars, handler, applies, df_lb, callVars, validated,
                   lb_name, existing_workspaces, pending_lbs, proceed,
                   workspace_to_destroy, current_ws>>

(***************************************************************************)
(* Specifications.                                                         *)
(***************************************************************************)
\* main() is entered: nothing loaded, no handler running.
Locals ==
    /\ edits = 0
    /\ pc = "load"
    /\ handler = ""
    /\ applies = 0
    /\ df_lb = NoFrame
    /\ df = NoFrame
    /\ errors = <<>>
    /\ validated = NoFrame
    /\ lb_name = ""
    /\ existing_workspaces = {}
    /\ pending_lbs = <<>>
    /\ proceed = None
    /\ workspace_to_destroy = None
    /\ log = <<>>

\* A terraform directory in which nothing has been deployed yet.
Start ==
    /\ Locals
    /\ workspaces = {"default"}
    /\ current_ws = "default"
    /\ tfvars = {}
    /\ deployed = {}

Init == excel \in Sheets /\ Start

\* The operator changes any cell or column between two rounds of the menu.
OperatorEdits ==
    /\ pc = "load"
    /\ \/ \E i \in 1..2, c \in AllColumns : \E v \in CellValues[c] : EditCell(i, c, v)
       \/ \E c \in AllColumns : DropColumn(c)

\* The validation round of the menu over every sheet the operator makes.
Next ==
    \/ OperatorEdits
    \/ MainLoad
    \/ handle_validate
    \/ PressEnter

Spec == Init /\ [][Next]_vars

\* The cells the operator works on while the menu and the apply handlers
\* run, and the prompts at which the program waits for the operator.
OrchCells == {<<1, "lb_type">>, <<2, "domains">>}

Prompts ==
    {"menu", "pause", "load_failed", "loop_load_failed", "loop_errors",
     "select", "confirm_single", "confirm_all", "destroy_select",
     "confirm_delete"}

OperatorFixes ==
    /\ pc \in Prompts
    /\ \E cell \in OrchCells : \E v \in CellValues[cell[2]] :
           EditCell(cell[1], cell[2], v)

InitOrch == excel = Frame(<<RowPrivatePool, RowExistingPool>>) /\ Start

NextOrch ==
    \/ OperatorFixes
    \/ MainLoad
    \/ MainLoadFails
    \/ MainRetry
    \/ handle_validate
    \/ \E h \in {"single", "all"} : StartApply(h)
    \/ LoopValidate
    \/ LoopLoadFails
    \/ LoopRetry
    \/ LoopRevalidate
    \/ LoopTypeM
    \/ \E choice \in 0..3, listed \in BOOLEAN : SelectLb(choice, listed)
    \/ \E answer \in Answers : ConfirmSingle(answer)
    \/ \E listed \in BOOLEAN : PrepareAll(listed)
    \/ \E answer \in Answers : ConfirmAll(answer)
    \/ WriteTfvars
    \/ \E ok \in BOOLEAN : RunWorkspace(ok)
    \/ \E ok \in BOOLEAN : RunApply(ok)
    \/ PressEnter

SpecOrch == InitOrch /\ [][NextOrch]_vars

\* The orchestrator started in a terraform directory that earlier
\* sessions left with deployments: the menu with handle_destroy.
InitDestroy ==
    /\ excel = Frame(<<RowPrivatePool, RowExistingPool>>)
    /\ Locals
    /\ workspaces \in {{"default", "lb-a"}, {"default", "lb-a", "lb-b"}}
    /\ current_ws \in workspaces
    /\ tfvars \in SUBSET {"lb-a", "lb-b"}
    /\ deployed \in SUBSET (workspaces \ {"default"})

NextDestroy ==
    \/ MainLoad
    \/ MainLoadFails
    \/ MainRetry
    \/ \E listed \in BOOLEAN : StartDestroy(listed)
    \/ \E choice \in 0..3 : SelectDestroy(choice)
    \/ \E ok \in BOOLEAN : RunSelectToDestroy(ok)
    \/ \E ok, emptied \in BOOLEAN : RunDestroy(ok, emptied)
    \/ \E answer \in Answers : ConfirmDelete(answer)
    \/ \E ok \in BOOLEAN : RunSelectDefault(ok)
    \/ \E ok \in BOOLEAN : RunDelete(ok)
    \/ PressEnter

SpecDestroy == InitDestroy /\ [][NextDestroy]_vars

(***************************************************************************)
(* Properties of the apply handlers.                                       *)
(***************************************************************************)
\* The places of an apply handler after run_validation_loop returned.
AfterLoop ==
    {"select", "confirm_single", "prepare_all", "confirm_all", "write",
     "workspace", "apply"}

InApply == handler \in {"single", "all"}

\* C1: the apply handlers write a .tfvars file and run terraform workspace
\* and terraform apply only after run_validation_loop returned a frame
\* that validate_dataframe found free of errors; while the latest
\* validation reported errors nothing has been written or run, and the
\* handler leaves the loop without a frame only from the error prompt.
C1_ApplyOnlyAfterCleanValidation ==
    InApply =>
        /\ (log # <<>> \/ pc \in AfterLoop) =>
               /\ validated # NoFrame
               /\ validate_dataframe(validated) = <<>>
        /\ errors # <<>> => validated = NoFrame /\ log = <<>>
        /\ pc = "loop_errors" => errors # <<>>
        /\ (pc = "pause" /\ validated = NoFrame) => errors # <<>> /\ log = <<>>

\* A single apply ran to the end on the frame of the loop, while the frame
\* main had loaded for the menu was one with errors.
C1_Witness ==
    /\ handler = "single"
    /\ pc = "pause"
    /\ Len(log) = 3
    /\ log[1].cmd = "write" /\ log[2].cmd = "new" /\ log[3].cmd = "apply"
    /\ log[3].rc = 0
    /\ validate_dataframe(df_lb) # <<>>
    /\ validate_dataframe(validated) = <<>>

(***************************************************************************)
(* Properties of validate_dataframe, stated on its latest call: `df' is    *)
(* the frame it was given and `errors' the list it returned.               *)
(***************************************************************************)
Called == df # NoFrame

\* The per-row checks ran: no column of the schema is missing from df.
RowsChecked == Called /\ SchemaColumns \subseteq df.columns

RowIds == 1..Len(df.rows)

\* The errors reported for the i-th row of df, in the order of the list.
ErrorsOfRow(i) == SelectSeq(errors, LAMBDA e : e.row_no = i + 1)

\* The errors of the i-th row that are about column c.
ErrorsOfCell(i, c) == SelectSeq(ErrorsOfRow(i), LAMBDA e : e.column = c)

HasError(i, kind, c) ==
    \E k \in 1..Len(errors) :
        errors[k].row_no = i + 1 /\ errors[k].kind = kind /\ errors[k].column = c

Cell(i, c) == RowGet(df.rows[i], c)

\* C2: if the sheet lacks at least one column the schema declares, the
\* result is exactly one error, it names every missing column, and no
\* row-level error is in the result.
C2_MissingColumnsSingleError ==
    (Called /\ SchemaColumns \ df.columns # {}) =>
        /\ Len(errors) = 1
        /\ errors[1].kind = "columns_missing"
        /\ Range(errors[1].items) = SchemaColumns \ df.columns
        /\ \A k \in 1..Len(errors) : errors[k].row_no = 0

\* Two schema columns are gone from a sheet whose rows are full of faults.
C2_Witness ==
    /\ Called
    /\ Cardinality(SchemaColumns \ df.columns) = 2
    /\ "lb_type" \in df.columns
    /\ df.rows[1]["lb_type"] = "http"
    /\ Len(errors) = 1

\* What the schema asks of one present value: its allowed_values and regex.
ValueOk(c, v) ==
    LET rules == VALIDATION_SCHEMA[c]
    IN  /\ "allowed_values" \in DOMAIN rules => v \in Range(rules.allowed_values)
        /\ "regex" \in DOMAIN rules => re_match(rules.regex, v)

UnconditionallyRequired ==
    {"lb_name", "namespace", "domains", "lb_type", "create_origin_pool"}

RequiredPresent(i) == \A c \in UnconditionallyRequired : notna(Cell(i, c))

PresentValuesOk(i) ==
    \A c \in SchemaColumns : notna(Cell(i, c)) => ValueOk(c, Cell(i, c))

BothAdvertiseTrue(i) ==
    Cell(i, "advertise_on_public_default_vip") = True /\ Cell(i, "advertise_custom") = True

SiteRuleTriggered(i) ==
    /\ Cell(i, "create_origin_pool") = True
    /\ Cell(i, "origin_server_type") \in {"private_ip", "private_name", "k8s_service"}

SiteTypeAbsent(i) == SiteRuleTriggered(i) /\ isna(Cell(i, "site_locator_type"))

SiteTypeInvalid(i) ==
    /\ SiteRuleTriggered(i)
    /\ notna(Cell(i, "site_locator_type"))
    /\ Cell(i, "site_locator_type") \notin {"site", "virtual_site"}

SiteNameAbsent(i) == SiteRuleTriggered(i) /\ isna(Cell(i, "vsite_or_site_name"))

CustomTriggered(i) == Cell(i, "advertise_custom") = True

WhereAbsent(i) == CustomTriggered(i) /\ isna(Cell(i, "advertise_where"))

WhereInvalid(i) ==
    /\ CustomTriggered(i)
    /\ notna(Cell(i, "advertise_where"))
    /\ Cell(i, "advertise_where") \notin {"site", "virtual_site"}

NamespaceAbsent(i) ==
    /\ CustomTriggered(i)
    /\ Cell(i, "advertise_where") = "virtual_site"
    /\ isna(Cell(i, "vsite_namespace"))

NoCrossFieldConflict(i) ==
    /\ ~BothAdvertiseTrue(i)
    /\ ~SiteTypeAbsent(i) /\ ~SiteTypeInvalid(i) /\ ~SiteNameAbsent(i)
    /\ ~WhereAbsent(i) /\ ~WhereInvalid(i) /\ ~NamespaceAbsent(i)

\* The columns whose rule has depends_on with required set.
ConditionallyRequired ==
    {c \in SchemaColumns :
        /\ "depends_on" \in DOMAIN VALIDATION_SCHEMA[c]
        /\ "required" \in DOMAIN VALIDATION_SCHEMA[c].depends_on}

TriggerEquals(i, c) ==
    LET dep == VALIDATION_SCHEMA[c].depends_on
    IN  PyEq(Cell(i, dep.column), dep.value)

TriggeredPresent(i) ==
    \A c \in ConditionallyRequired : TriggerEquals(i, c) => notna(Cell(i, c))

HostnamesOk(i) ==
    \A c \in {"domains", "csrf_custom_domains"} :
        notna(Cell(i, c)) => InvalidHostnames(Cell(i, c)) = <<>>

\* C3 as stated: when in every row the required fields are present, the
\* present values satisfy their allowed_values and regex, and no
\* cross-field conflict triggers, the list is empty.
C3_AsStated ==
    (Called /\ \A i \in RowIds :
                  RequiredPresent(i) /\ PresentValuesOk(i) /\ NoCrossFieldConflict(i))
        => errors = <<>>

\* C3, amended: if the sheet has every schema column and every row also
\* has each conditionally required field whose trigger fired and only
\* valid hostnames in domains and csrf_custom_domains, the list is empty.
C3_ValidSheetNoErrors ==
    (RowsChecked /\ \A i \in RowIds :
                       /\ RequiredPresent(i) /\ PresentValuesOk(i)
                       /\ NoCrossFieldConflict(i)
                       /\ TriggeredPresent(i) /\ HostnamesOk(i))
        => errors = <<>>

\* A valid two-row sheet that the operator changed twice and kept valid.
C3_Witness ==
    /\ RowsChecked
    /\ edits = 2
    /\ df.rows[1]["origin_server_type"] = "k8s_service"
    /\ \A i \in RowIds :
           /\ RequiredPresent(i) /\ PresentValuesOk(i) /\ NoCrossFieldConflict(i)
           /\ TriggeredPresent(i) /\ HostnamesOk(i)
    /\ errors = <<>>

\* C4: a row with an unconditionally required field absent gets exactly
\* one error about that field, the "required field empty" one, whatever
\* the other fields hold.
C4_RequiredEmptyExactlyOnce ==
    RowsChecked =>
        \A i \in RowIds : \A c \in UnconditionallyRequired :
            isna(Cell(i, c)) =>
                /\ Len(ErrorsOfCell(i, c)) = 1
                /\ ErrorsOfCell(i, c)[1].kind = "required_empty"

\* lb_type and domains are empty in a row that has other faults as well.
C4_Witness ==
    /\ RowsChecked
    /\ isna(Cell(1, "lb_type")) /\ isna(Cell(1, "domains"))
    /\ HasError(1, "required_empty", "lb_type")
    /\ HasError(1, "required_empty", "domains")
    /\ HasError(1, "invalid_hostnames", "csrf_custom_domains")
    /\ HasError(1, "both_true", "advertise_on_public_default_vip")

DependentColumns == {c \in SchemaColumns : "depends_on" \in DOMAIN VALIDATION_SCHEMA[c]}

\* C5: for a field with depends_on, when the trigger field does not equal
\* the trigger value, no error is reported for the field, absent or not,
\* valid or not.
C5_UntriggeredNeverChecked ==
    RowsChecked =>
        \A i \in RowIds : \A c \in DependentColumns :
            ~TriggerEquals(i, c) => ErrorsOfCell(i, c) = <<>>

\* An untriggered field holds a value its regex rejects, another an
\* untriggered field with allowed_values holds a value outside them.
C5_Witness ==
    /\ RowsChecked
    /\ Cell(1, "ip_address_public") = "8.8.8"
    /\ Cell(1, "origin_server_type") = "k8s_service"
    /\ Cell(1, "csrf_policy_mode") = "enforce"
    /\ Cell(1, "enable_csrf") = False
    /\ isna(Cell(1, "existing_origin_pool_name"))
    /\ ErrorsOfCell(1, "ip_address_public") = <<>>
    /\ ErrorsOfCell(1, "csrf_policy_mode") = <<>>
    /\ errors # <<>>

ConflictErrors(i) == SelectSeq(ErrorsOfRow(i), LAMBDA e : e.kind = "both_true")

\* C6: a row with both advertisement flags true gets exactly one
\* "cannot both be TRUE" error, whatever the other fields hold.
C6_BothFlagsExactlyOneConflict ==
    RowsChecked =>
        \A i \in RowIds : BothAdvertiseTrue(i) => Len(ConflictErrors(i)) = 1

\* Both flags are true in a row that also fails the schema pass, the
\* hostname checks and the other two hand-coded rules.
C6_Witness ==
    /\ RowsChecked
    /\ BothAdvertiseTrue(1)
    /\ Len(ConflictErrors(1)) = 1
    /\ HasError(1, "required_empty", "namespace")
    /\ HasError(1, "invalid_hostnames", "domains")
    /\ HasError(1, "required_for_origin", "vsite_or_site_name")
    /\ HasError(1, "invalid_value_must_be", "advertise_where")

\* C7 as stated: a row whose enable_csrf is false or absent gets no
\* csrf_custom_domains error, whatever csrf_custom_domains holds.
C7_CsrfCheckOnlyWhenEnabled ==
    RowsChecked =>
        \A i \in RowIds :
            Cell(i, "enable_csrf") \in {False, NaN, None}
                => ErrorsOfCell(i, "csrf_custom_domains") = <<>>

\* C8: each hand-coded rule reports whenever its own trigger and
\* violation hold in a row, whatever else was reported for the row.
C8_CrossFieldRulesAlwaysRun ==
    RowsChecked =>
        \A i \in RowIds :
            /\ BothAdvertiseTrue(i) =>
                   HasError(i, "both_true", "advertise_on_public_default_vip")
            /\ SiteTypeAbsent(i) => HasError(i, "required_for_origin", "site_locator_type")
            /\ SiteTypeInvalid(i) =>
                   HasError(i, "invalid_value_must_be", "site_locator_type")
            /\ SiteNameAbsent(i) => HasError(i, "required_for_origin", "vsite_or_site_name")
            /\ WhereAbsent(i) => HasError(i, "required_because", "advertise_where")
            /\ WhereInvalid(i) => HasError(i, "invalid_value_must_be", "advertise_where")
            /\ NamespaceAbsent(i) => HasError(i, "required_because", "vsite_namespace")

\* All three rules are violated at once in a row that already has schema
\* and hostname errors.
C8_Witness ==
    /\ RowsChecked
    /\ BothAdvertiseTrue(1) /\ SiteTypeInvalid(1) /\ SiteNameAbsent(1)
    /\ NamespaceAbsent(1)
    /\ HasError(1, "invalid_value_allowed", "lb_type")
    /\ HasError(1, "invalid_hostnames", "domains")
    /\ HasError(1, "both_true", "advertise_on_public_default_vip")
    /\ HasError(1, "required_because", "vsite_namespace")

\* The place of a column in the iteration order of the schema.
SchemaIndex(c) == CHOOSE k \in 1..Len(SchemaOrder) : SchemaOrder[k] = c

SchemaKinds ==
    {"required_empty", "required_because", "invalid_value_allowed", "invalid_format"}

\* The group an error belongs to: its schema column's place for the
\* schema pass, then domains, then csrf_custom_domains, then the
\* hand-coded rules.
Group(e) ==
    IF e.kind \in SchemaKinds /\ e.column \in SchemaColumns
    THEN SchemaIndex(e.column)
    ELSE IF e.kind = "invalid_hostnames" /\ e.column = "domains"
         THEN Len(SchemaOrder) + 1
         ELSE IF e.kind = "invalid_hostnames"
              THEN Len(SchemaOrder) + 2
              ELSE Len(SchemaOrder) + 3

\* C9: within a row, schema errors come in schema order, then the domains
\* error, then the csrf_custom_domains error, then the cross-field errors.
C9_ErrorOrderWithinRow ==
    RowsChecked =>
        \A i \in RowIds :
            LET es == ErrorsOfRow(i)
            IN  \A j, k \in 1..Len(es) : j < k => Group(es[j]) <= Group(es[k])

\* One row has errors of all four groups, two of them from the schema.
C9_Witness ==
    /\ RowsChecked
    /\ \E a, b, c, d, e \in 1..Len(ErrorsOfRow(1)) :
           LET es == ErrorsOfRow(1)
           IN  /\ a < b /\ b < c /\ c < d /\ d < e
               /\ Group(es[a]) < Group(es[b])
               /\ Group(es[b]) <= Len(SchemaOrder)
               /\ Group(es[c]) = Len(SchemaOrder) + 1
               /\ Group(es[d]) = Len(SchemaOrder) + 2
               /\ Group(es[e]) = Len(SchemaOrder) + 3

\* C10: with create_origin_pool true and a private origin server type, an
\* absent site_locator_type, a site_locator_type outside {site,
\* virtual_site} and an absent vsite_or_site_name are each reported, the
\* last whatever the locator type; without the trigger none of the three is.
C10_SiteLocatorRule ==
    RowsChecked =>
        \A i \in RowIds :
            /\ HasError(i, "required_for_origin", "site_locator_type") <=> SiteTypeAbsent(i)
            /\ HasError(i, "invalid_value_must_be", "site_locator_type")
                   <=> SiteTypeInvalid(i)
            /\ HasError(i, "required_for_origin", "vsite_or_site_name") <=> SiteNameAbsent(i)

\* The locator type is wrong and the name is absent in one row; in the
\* other the same cells are empty but the rule is not triggered.
C10_Witness ==
    /\ RowsChecked
    /\ SiteTypeInvalid(1) /\ SiteNameAbsent(1)
    /\ HasError(1, "invalid_value_must_be", "site_locator_type")
    /\ HasError(1, "required_for_origin", "vsite_or_site_name")
    /\ ~SiteRuleTriggered(2)
    /\ isna(Cell(2, "site_locator_type")) /\ isna(Cell(2, "vsite_or_site_name"))
    /\ ErrorsOfCell(2, "site_locator_type") = <<>>

\* C11: with advertise_custom true, an absent advertise_where is reported,
\* a present advertise_where outside {site, virtual_site} is reported, and
\* an absent vsite_namespace is reported exactly when advertise_where is
\* virtual_site; without advertise_custom true none of the three is
\* reported, and a row never gets two errors about advertise_where.
C11_AdvertiseCustomRule ==
    RowsChecked =>
        \A i \in RowIds :
            /\ HasError(i, "required_because", "advertise_where") <=> WhereAbsent(i)
            /\ HasError(i, "invalid_value_must_be", "advertise_where") <=> WhereInvalid(i)
            /\ HasError(i, "required_because", "vsite_namespace") <=> NamespaceAbsent(i)
            /\ Len(ErrorsOfCell(i, "advertise_where")) <= 1
            /\ Len(ErrorsOfCell(i, "vsite_namespace")) <= 1

\* One row advertises on a virtual site without a namespace and is
\* reported; another has no custom advertisement, the same two cells
\* empty, and nothing reported about them.
C11_Witness ==
    /\ RowsChecked
    /\ \E i \in RowIds :
           /\ NamespaceAbsent(i)
           /\ HasError(i, "required_because", "vsite_namespace")
           /\ ErrorsOfCell(i, "advertise_where") = <<>>
    /\ \E j \in RowIds :
           /\ ~CustomTriggered(j)
           /\ isna(Cell(j, "advertise_where")) /\ isna(Cell(j, "vsite_namespace"))
           /\ ErrorsOfCell(j, "advertise_where") = <<>>
           /\ ErrorsOfCell(j, "vsite_namespace") = <<>>

\* The comma-separated entries of a cell, each trimmed.
Entries(value) ==
    LET parts == Split(value, ",")
    IN  [k \in 1..Len(parts) |-> Strip(parts[k])]

FailsHostname(d) == ~re_match(HOSTNAME_REGEX, d)

\* C12: a row whose domains cell is present gets at most one error about
\* domains; that error lists, in their order in the cell, exactly the
\* trimmed entries that fail the hostname pattern; and there is no such
\* error when every entry passes.
C12_DomainsErrorListsInvalidEntries ==
    RowsChecked =>
        \A i \in RowIds :
            notna(Cell(i, "domains")) =>
                LET es == ErrorsOfCell(i, "domains")
                    bad == SelectSeq(Entries(Cell(i, "domains")), FailsHostname)
                IN  /\ Len(es) <= 1
                    /\ es = <<>> <=> bad = <<>>
                    /\ es # <<>> =>
                           /\ es[1].kind = "invalid_hostnames"
                           /\ es[1].items = bad
                           /\ \A k \in 1..Len(es[1].items) :
                                  FailsHostname(es[1].items[k])

\* One row has a bad entry between two good ones and the error names it
\* alone; another row has several entries, all good, and no error.
C12_Witness ==
    /\ RowsChecked
    /\ \E i \in RowIds :
           /\ Cell(i, "domains") = "a.io, bad_host!, b.io"
           /\ Len(ErrorsOfCell(i, "domains")) = 1
           /\ ErrorsOfCell(i, "domains")[1].items = <<"bad_host!">>
    /\ \E j \in RowIds :
           /\ notna(Cell(j, "domains"))
           /\ Len(Entries(Cell(j, "domains"))) >= 2
           /\ ErrorsOfCell(j, "domains") = <<>>

\* What validate_dataframe returns for the i-th row of df in a sheet of
\* its own, with the row number it has in df.
Alone(i) ==
    LET own == validate_dataframe([columns |-> df.columns, rows |-> <<df.rows[i]>>])
    IN  [k \in 1..Len(own) |-> [own[k] EXCEPT !.row_no = i + 1]]

RECURSIVE RowByRow(_)
RowByRow(i) == IF i > Len(df.rows) THEN <<>> ELSE Alone(i) \o RowByRow(i + 1)

\* C13: when no schema column is missing the returned list is the errors
\* of the first row, then those of the second, and so on, each row's
\* errors being what the row gets on its own whatever the other rows hold.
C13_AllRowsAccumulated ==
    RowsChecked =>
        /\ errors = RowByRow(1)
        /\ \A i \in RowIds : ErrorsOfRow(i) = Alone(i)

\* Both rows have errors, and the first has errors of several kinds.
C13_Witness ==
    /\ RowsChecked
    /\ Len(df.rows) = 2
    /\ ErrorsOfRow(2) # <<>>
    /\ HasError(1, "invalid_value_allowed", "lb_type")
    /\ HasError(1, "invalid_hostnames", "domains")
    /\ HasError(1, "both_true", "advertise_on_public_default_vip")
    /\ Len(errors) = Len(ErrorsOfRow(1)) + Len(ErrorsOfRow(2))

(***************************************************************************)
(* Properties of the menu and its handlers.                                *)
(***************************************************************************)
\* A validation step works on the workbook as it is on disk at that step.
ReadsWorkbook == df' = excel /\ errors' = validate_dataframe(excel)

\* An iteration of run_validation_loop validates the workbook as saved.
LoopReadsWorkbook == LoopValidate => ReadsWorkbook

\* A "Validate Excel Configuration" request validates the workbook as saved.
ValidateReadsWorkbook == handle_validate => ReadsWorkbook

\* C14: every validation, in run_validation_loop and in handle_validate,
\* is made on the workbook as the operator last saved it, so an edit saved
\* before the validation is requested shows in its result.
C14_ValidationReadsLatestEdit ==
    [][LoopReadsWorkbook /\ ValidateReadsWorkbook]_vars

\* C15: every `terraform apply' of an apply handler comes right after a
\* `terraform workspace new' or `select' for the same load balancer that
\* exited with 0, and runs while that load balancer's workspace is the
\* selected one.
C15_ApplyOnlyInOwnWorkspace ==
    InApply =>
        \A k \in 1..Len(log) :
            log[k].cmd = "apply" =>
                /\ k > 1
                /\ log[k - 1].cmd \in {"new", "select"}
                /\ log[k - 1].lb = log[k].lb
                /\ log[k - 1].rc = 0
                /\ log[k].ws = log[k].lb

\* The commands of one kind that the running handler has issued for the
\* deployment it was asked to destroy.
Issued(l, cmd) == {k \in 1..Len(l) : l[k].cmd = cmd /\ l[k].lb = workspace_to_destroy}

\* handle_destroy's `terraform destroy' has come back with exit code 0.
DestroyedOk(l) == \E k \in Issued(l, "destroy") : l[k].rc = 0

DestroyFailed(l) == \E k \in Issued(l, "destroy") : l[k].rc # 0

\* One step of the program while handle_destroy is the running handler.
DestroyStep ==
    handler' = "destroy" =>
        /\ (workspaces' # workspaces \/ tfvars' # tfvars) =>
               /\ DestroyedOk(log)
               /\ proceed = "y"
               /\ workspaces' = workspaces \ {workspace_to_destroy}
                      \/ workspaces' = workspaces
               /\ tfvars' = tfvars \ {workspace_to_destroy}
        /\ (Issued(log', "delete") # {} \/ Issued(log', "remove") # {}) =>
               DestroyedOk(log') /\ proceed' = "y"
        /\ (DestroyFailed(log') \/ proceed' \notin {None, "y"}) =>
               /\ pc' = "pause"
               /\ UNCHANGED <<workspaces, tfvars>>
               /\ Issued(log', "delete") = {} /\ Issued(log', "remove") = {}
        /\ \A k \in 1..Len(log') :
               log'[k].cmd = "delete" =>
                   /\ k > 1
                   /\ log'[k - 1].cmd = "select"
                   /\ log'[k - 1].lb = "default"

\* C16: handle_destroy deletes the workspace and removes its .tfvars file
\* only after its `terraform destroy' exited with 0 and the operator then
\* answered y; after a failed destroy or any other answer it returns with
\* the workspaces and the .tfvars files as they were; and `terraform
\* workspace select default' is the command right before `terraform
\* workspace delete'.
C16_DeleteOnlyAfterDestroyAndYes == [][DestroyStep]_vars

\* A destroy went through to the end: destroy exited with 0, the operator
\* answered y, default was selected, the workspace was deleted and its
\* .tfvars file removed.
C16_Witness ==
    /\ handler = "destroy"
    /\ pc = "pause"
    /\ proceed = "y"
    /\ Len(log) = 5
    /\ log[2].cmd = "destroy" /\ log[2].rc = 0
    /\ log[3].cmd = "select" /\ log[3].lb = "default" /\ log[3].rc = 0
    /\ log[4].cmd = "delete" /\ log[4].rc = 0
    /\ log[5].cmd = "remove"
    /\ workspace_to_destroy \notin workspaces
    /\ workspace_to_destroy \notin tfvars

\* The operator has answered something other than y at the confirmation
\* prompt of the apply handler that is running.
ApplyDeclined == InApply /\ proceed \notin {None, "y"}

\* One step of the program around a declined confirmation.
DeclineStep ==
    /\ ApplyDeclined' =>
           /\ pc' = "pause"
           /\ log' = <<>>
           /\ UNCHANGED worldVars
    /\ (InApply' /\ worldVars' # worldVars) => Len(log') > Len(log)

\* C17: when the operator answers anything but y at the confirmation of
\* handle_apply_single or handle_apply_all, the handler returns having
\* written no .tfvars file and run no terraform workspace or apply
\* command; every file written and command run by an apply handler is on
\* its record, which is empty at that point.
C17_DeclinedApplyChangesNothing == [][DeclineStep]_vars

\* handle_apply_single asked about an existing workspace, the operator
\* answered n, and the handler has returned with nothing written or run.
C17_Witness ==
    /\ handler = "single"
    /\ pc = "pause"
    /\ proceed = "n"
    /\ lb_name \in existing_workspaces
    /\ log = <<>>

=============================================================================
